---- MODULE Spec2Model ----
(***************************************************************************)
(* Automata-Theory: DFSM.py (pruning and reduction of a deterministic      *)
(* finite state machine), EilenbergMachine.py (regular expression to       *)
(* Eilenberg machine, acceptance) and regexConversions.py (regular         *)
(* expression to string and back).                                         *)
(*                                                                         *)
(* Python lists are sequences (1-based here, so list index i is sequence   *)
(* index i + 1), states are the integers 0 .. number_states - 1, an edge   *)
(* (s, a) is the tuple <<s, a>>, a string is a sequence of one-character   *)
(* strings.                                                                *)
(***************************************************************************)
EXTENDS Integers, Sequences, FiniteSets, TLC

VARIABLES
    prog,       \* which of the three scripts this behaviour runs
    pc,         \* position of the running script
    dfsm,       \* DFSM.py: the DFSM object (its five fields)
    input,      \* DFSM.py, pruning alone: the DFSM as constructed (history)
    lang,       \* DFSM.py: the words, up to MaxWordLen, the DFSM as constructed accepts (history)
    classes,    \* reduce_dfsm: the list of classes
    q,          \* reduce_dfsm: the queue of tasks (set_states, char)
    task,       \* reduce_dfsm: the task popped last (history)
    hist,       \* DFSM.py: <<operation, number_states on return>> per finished call
    reg_expr,   \* the regular expression (a dict) handed to the function called first
    machine,    \* EilenbergMachine.py: the EilenbergMachine object (its four fields)
    returned,   \* EilenbergMachine.py: how get_Eilenberg_machine ended
    expr,       \* EilenbergMachine.py: the argument of accept
    result,     \* EilenbergMachine.py: what accept returned
    str,        \* regexConversions.py: how conversion_reg_expr_to_str ended, and its string
    json        \* regexConversions.py: how conversion_reg_expr_to_json ended, and its dict

dvars == <<dfsm, input, lang, classes, q, task, hist>>
evars == <<reg_expr, machine, returned, expr, result, str, json>>
vars == <<prog, pc, dvars, evars>>

(***************************************************************************)
(* Bounds of the model.                                                    *)
(***************************************************************************)
MaxStates == 4      \* states of a drawn DFSM (reduction)
MaxEdges == 4       \* edges of a drawn DFSM (reduction)
MaxReduce == 2      \* calls of reduce_dfsm in one behaviour
MaxWordLen == 4     \* length of the words a language is compared on
PruneStates == 3    \* states of a drawn DFSM (pruning alone)
PruneEdges == 2     \* edges of a drawn DFSM (pruning alone)
MaxNodes == 6       \* nodes of a drawn regular expression
NfaStates == 2      \* states of a drawn EilenbergMachine
NfaEdges == 2       \* edges of a drawn EilenbergMachine
MaxExprLen == 2     \* length of the words a drawn EilenbergMachine is run on

(***************************************************************************)
(* Generic helpers.                                                        *)
(***************************************************************************)
Min(S) == CHOOSE x \in S : \A y \in S : x <= y

Range(list) == {list[i] : i \in 1..Len(list)}

Contains(list, x) == \E i \in 1..Len(list) : list[i] = x

\* list.remove(x): drops the first element equal to x
Remove(list, x) ==
    LET k == Min({i \in 1..Len(list) : list[i] = x})
    IN  SubSeq(list, 1, k - 1) \o SubSeq(list, k + 1, Len(list))

\* the ascending list of a set of integers
RECURSIVE SortedSeq(_)
SortedSeq(S) == IF S = {} THEN <<>> ELSE <<Min(S)>> \o SortedSeq(S \ {Min(S)})

\* all words over the symbols of alpha (a sequence) of length at most n
RECURSIVE Words(_, _)
Words(alpha, n) ==
    IF n = 0 THEN {<<>>}
    ELSE LET shorter == Words(alpha, n - 1)
         IN  shorter \cup {<<alpha[i]>> \o w : i \in 1..Len(alpha),
                                               w \in {v \in shorter : Len(v) = n - 1}}

(***************************************************************************)
(* DFSM.py                                                                 *)
(***************************************************************************)
DFSM(alphabet, number_states, transitions_between_states, initial_state, acceptable_states) ==
    [alphabet |-> alphabet,
     number_states |-> number_states,
     transitions_between_states |-> transitions_between_states,
     initial_state |-> initial_state,
     acceptable_states |-> acceptable_states]

\* _transition: the target of the first edge of state labelled char, or -1
Transition(self, state, char) ==
    LET edges == self.transitions_between_states[state + 1]
        hits == {i \in 1..Len(edges) : edges[i][2] = char}
    IN  IF hits = {} THEN -1 ELSE edges[Min(hits)][1]

----
\* eliminate_unreachable_states, lines 51-54: the edges of one dequeued state
RECURSIVE BfsScan(_, _, _, _)
BfsScan(edges, i, used, queue) ==
    IF i > Len(edges) THEN [used |-> used, queue |-> queue]
    ELSE LET s == edges[i][1]
         IN  IF ~used[s]
             THEN BfsScan(edges, i + 1, [used EXCEPT ![s] = TRUE], Append(queue, s))
             ELSE BfsScan(edges, i + 1, used, queue)

\* lines 49-54: the breadth-first loop
RECURSIVE BfsLoop(_, _, _)
BfsLoop(self, used, queue) ==
    IF queue = <<>> THEN used
    ELSE LET r == BfsScan(self.transitions_between_states[Head(queue) + 1], 1,
                          used, Tail(queue))
         IN  BfsLoop(self, r.used, r.queue)

\* a plausible slip: only the initial state and its direct successors are marked
UsedOneStep(self) ==
    [s \in 0..(self.number_states - 1) |->
        \/ s = self.initial_state
        \/ \E i \in 1..Len(self.transitions_between_states[self.initial_state + 1]) :
              self.transitions_between_states[self.initial_state + 1][i][1] = s]

\* lines 43-54: used[s] for every state s
Used(self) ==
    BfsLoop(self,
            [s \in 0..(self.number_states - 1) |-> s = self.initial_state],
            <<self.initial_state>>)

\* lines 59-65: new_state_numbers, a dictionary old number -> new number
RECURSIVE PruneNumbers(_, _, _, _, _)
PruneNumbers(used, n, s, new_number, numbers) ==
    IF s >= n THEN numbers
    ELSE IF used[s]
         THEN PruneNumbers(used, n, s + 1, new_number + 1, (s :> new_number) @@ numbers)
         ELSE PruneNumbers(used, n, s + 1, new_number, numbers)

\* lines 72-74: the kept, renumbered edges of one state
RECURSIVE PruneEdgesOf(_, _, _, _)
PruneEdgesOf(edges, i, used, numbers) ==
    IF i > Len(edges) THEN <<>>
    ELSE LET state == edges[i][1]
             char == edges[i][2]
         IN  (IF used[state] THEN <<(<<numbers[state], char>>)>> ELSE <<>>)
             \o PruneEdgesOf(edges, i + 1, used, numbers)

\* lines 67-74: new_transitions_between_states
RECURSIVE PruneTransitions(_, _, _, _, _)
PruneTransitions(self, used, numbers, s, new) ==
    IF s >= self.number_states THEN new
    ELSE IF used[s]
         THEN PruneTransitions(self, used, numbers, s + 1,
                  [new EXCEPT ![numbers[s] + 1] =
                      @ \o PruneEdgesOf(self.transitions_between_states[s + 1], 1,
                                        used, numbers)])
         ELSE PruneTransitions(self, used, numbers, s + 1, new)

\* lines 81-84: new_acceptable_states
RECURSIVE PruneAcceptable(_, _, _, _)
PruneAcceptable(acc, i, used, numbers) ==
    IF i > Len(acc) THEN <<>>
    ELSE (IF used[acc[i]] THEN <<numbers[acc[i]]>> ELSE <<>>)
         \o PruneAcceptable(acc, i + 1, used, numbers)

\* eliminate_unreachable_states: the DFSM it leaves behind
Eliminated(self) ==
    LET used == Used(self)
        numbers == PruneNumbers(used, self.number_states, 0, 0, <<>>)
        new_number == Cardinality(DOMAIN numbers)
    IN  DFSM(self.alphabet,
             new_number,
             PruneTransitions(self, used, numbers, 0, [i \in 1..new_number |-> <<>>]),
             numbers[self.initial_state],
             PruneAcceptable(self.acceptable_states, 1, used, numbers))

----
\* reduce_dfsm, lines 90-93: not_acceptable_states
NotAcceptable(self) ==
    SortedSeq({i \in 0..(self.number_states - 1) : ~Contains(self.acceptable_states, i)})

\* lines 100-102 and 120-122: the tasks (fst, c), (snd, c) for every symbol c
RECURSIVE TasksFor(_, _, _, _)
TasksFor(alphabet, i, fst, snd) ==
    IF i > Len(alphabet) THEN <<>>
    ELSE <<(<<fst, alphabet[i]>>), (<<snd, alphabet[i]>>)>> \o TasksFor(alphabet, i + 1, fst, snd)

\* lines 108-115: set_fst and set_snd of the class s
RECURSIVE SplitClass(_, _, _, _, _, _, _)
SplitClass(self, s, i, set_states, char, set_fst, set_snd) ==
    IF i > Len(s) THEN [fst |-> set_fst, snd |-> set_snd]
    ELSE LET to_state == Transition(self, s[i], char)
         IN  IF to_state = -1 \/ ~Contains(set_states, to_state)
             THEN SplitClass(self, s, i + 1, set_states, char, set_fst, Append(set_snd, s[i]))
             ELSE SplitClass(self, s, i + 1, set_states, char, Append(set_fst, s[i]), set_snd)

\* lines 107-122: "for s in classes" with classes changed inside the loop. The
\* list iterator holds an index: after the element at index i the element at
\* index i + 1 of the list as it is then comes next.
RECURSIVE ForClasses(_, _, _, _, _, _)
ForClasses(self, cls, i, set_states, char, puts) ==
    IF i > Len(cls) THEN [classes |-> cls, puts |-> puts]
    ELSE LET s == cls[i]
             sp == SplitClass(self, s, 1, set_states, char, <<>>, <<>>)
         IN  IF sp.fst # <<>> /\ sp.snd # <<>>
             THEN ForClasses(self, Remove(cls, s) \o <<sp.fst, sp.snd>>, i + 1,
                             set_states, char,
                             puts \o TasksFor(self.alphabet, 1, sp.fst, sp.snd))
             ELSE ForClasses(self, cls, i + 1, set_states, char, puts)

\* lines 127-133: new_state_numbers, a dictionary state -> index of its class
RECURSIVE ReduceNumbers(_, _, _)
ReduceNumbers(cls, i, numbers) ==
    IF i > Len(cls) THEN numbers
    ELSE ReduceNumbers(cls, i + 1,
             [state \in {cls[i][k] : k \in 1..Len(cls[i])} |-> i - 1] @@ numbers)

\* lines 139-142: the edges of state s added to new_transitions_between_states
RECURSIVE ReduceEdgesOf(_, _, _, _, _)
ReduceEdgesOf(edges, i, numbers, s, new) ==
    IF i > Len(edges) THEN new
    ELSE LET e == <<numbers[edges[i][1]], edges[i][2]>>
         IN  IF ~Contains(new[numbers[s] + 1], e)
             THEN ReduceEdgesOf(edges, i + 1, numbers, s,
                                [new EXCEPT ![numbers[s] + 1] = Append(@, e)])
             ELSE ReduceEdgesOf(edges, i + 1, numbers, s, new)

\* lines 135-142: new_transitions_between_states
RECURSIVE ReduceTransitions(_, _, _, _)
ReduceTransitions(self, numbers, s, new) ==
    IF s >= self.number_states THEN new
    ELSE ReduceTransitions(self, numbers, s + 1,
             ReduceEdgesOf(self.transitions_between_states[s + 1], 1, numbers, s, new))

\* lines 149-152: new_acceptable_states
RECURSIVE ReduceAcceptable(_, _, _, _)
ReduceAcceptable(acc, i, numbers, new) ==
    IF i > Len(acc) THEN new
    ELSE IF ~Contains(new, numbers[acc[i]])
         THEN ReduceAcceptable(acc, i + 1, numbers, Append(new, numbers[acc[i]]))
         ELSE ReduceAcceptable(acc, i + 1, numbers, new)

\* lines 124-153: the DFSM built from the final list of classes
Reduced(self, cls) ==
    LET numbers == ReduceNumbers(cls, 1, <<>>)
        new_number == Len(cls)
    IN  DFSM(self.alphabet,
             new_number,
             ReduceTransitions(self, numbers, 0, [i \in 1..new_number |-> <<>>]),
             numbers[self.initial_state],
             ReduceAcceptable(self.acceptable_states, 1, numbers, <<>>))

----
\* The constructor arguments a behaviour draws: deterministic, possibly partial
\* machines over alphabet with n states and at most e edges; the edges of a
\* state are listed in the order of the alphabet.
EdgesFrom(alphabet, f, s) ==
    LET RECURSIVE Build(_)
        Build(i) == IF i > Len(alphabet) THEN <<>>
                    ELSE (IF <<s, alphabet[i]>> \in DOMAIN f
                          THEN <<(<<f[<<s, alphabet[i]>>], alphabet[i]>>)>>
                          ELSE <<>>) \o Build(i + 1)
    IN  Build(1)

DFSMs(alphabet, n, e, inits) ==
    LET cells == (0..(n - 1)) \X Range(alphabet)
        fs == UNION {[cs -> 0..(n - 1)] : cs \in {c \in SUBSET cells : Cardinality(c) <= e}}
    IN  {DFSM(alphabet, n, [k \in 1..n |-> EdgesFrom(alphabet, f, k - 1)], i, SortedSeq(acc)) :
            f \in fs, i \in inits, acc \in SUBSET (0..(n - 1))}

\* the machine of the module-level test, line 160
TestDFSM ==
    DFSM(<<"a", "b", "c">>, 5,
         << <<(<<1, "a">>), (<<3, "b">>)>>, <<(<<4, "c">>)>>, <<(<<1, "b">>)>>,
            <<(<<4, "c">>)>>, <<>> >>,
         0, <<4>>)

\* The words a machine accepts: w is accepted when edges labelled with its symbols
\* lead from an initial state to an acceptable state.
Step(transitions, S, char) ==
    {e[1] : e \in {x \in UNION {Range(transitions[s + 1]) : s \in S} : x[2] = char}}

RECURSIVE RunStates(_, _, _)
RunStates(transitions, S, w) ==
    IF w = <<>> THEN S ELSE RunStates(transitions, Step(transitions, S, Head(w)), Tail(w))

HasPath(transitions, inits, accs, w) == RunStates(transitions, inits, w) \cap accs # {}

\* the accepted words of length at most n read from the states S
RECURSIVE LanguageFrom(_, _, _, _, _)
LanguageFrom(transitions, alphabet, accs, S, n) ==
    IF S = {} THEN {}
    ELSE (IF S \cap accs # {} THEN {<<>>} ELSE {}) \cup
         (IF n = 0 THEN {}
          ELSE UNION {{<<alphabet[i]>> \o w :
                          w \in LanguageFrom(transitions, alphabet, accs,
                                             Step(transitions, S, alphabet[i]), n - 1)} :
                      i \in 1..Len(alphabet)})

LanguageDFSM(self) ==
    LanguageFrom(self.transitions_between_states, self.alphabet,
                 Range(self.acceptable_states), {self.initial_state}, MaxWordLen)

NoDFSM == DFSM(<<>>, 0, <<>>, 0, <<>>)

\* the variables of the other two scripts, unused by this one
NoRegExpr ==
    /\ reg_expr = [key |-> "", atm |-> "", val |-> <<>>]
    /\ machine = [number_states |-> 0, transitions_between_states |-> <<>>,
                  initial_states |-> <<>>, acceptable_states |-> <<>>]
    /\ returned = ""
    /\ expr = <<>>
    /\ result = FALSE
    /\ str = [ret |-> "", val |-> <<>>]
    /\ json = [ret |-> "", val |-> [key |-> "", atm |-> "", val |-> <<>>]]

NoTask == [set_states |-> <<>>, char |-> "", classes |-> <<>>]

InitDFSM ==
    /\ prog = "DFSM"
    /\ pc = "idle"
    /\ dfsm \in DFSMs(<<"a", "b">>, MaxStates, MaxEdges, {0}) \cup {TestDFSM}
    /\ input = NoDFSM
    /\ lang = LanguageDFSM(dfsm)
    /\ classes = <<>>
    /\ q = <<>>
    /\ task = NoTask
    /\ hist = <<>>
    /\ NoRegExpr

\* machine.eliminate_unreachable_states(), line 162
EliminateUnreachableStates ==
    /\ prog \in {"DFSM", "prune"}
    /\ pc = "idle"
    /\ hist = <<>>
    /\ dfsm' = Eliminated(dfsm)
    /\ hist' = Append(hist, <<"eliminate", dfsm'.number_states>>)
    /\ UNCHANGED <<prog, pc, input, lang, classes, q, task, evars>>

ReduceCalls == Cardinality({i \in 1..Len(hist) : hist[i][1] = "reduce"})

\* machine.reduce_dfsm(), line 170, up to the loop: lines 89-102
ReduceStart ==
    /\ prog = "DFSM"
    /\ pc = "idle"
    /\ hist # <<>>
    /\ ReduceCalls < MaxReduce
    /\ LET acc == dfsm.acceptable_states
           nacc == NotAcceptable(dfsm)
       IN  /\ classes' = <<acc, nacc>>
           /\ q' = TasksFor(dfsm.alphabet, 1, acc, nacc)
    /\ pc' = "reduce"
    /\ task' = NoTask
    /\ UNCHANGED <<prog, dfsm, input, lang, hist, evars>>

\* one turn of the while loop, lines 104-122
ReduceTask ==
    /\ prog = "DFSM"
    /\ pc = "reduce"
    /\ q # <<>>
    /\ LET set_states == Head(q)[1]
           char == Head(q)[2]
           r == ForClasses(dfsm, classes, 1, set_states, char, <<>>)
       IN  /\ classes' = r.classes
           /\ q' = Tail(q) \o r.puts
           /\ task' = [set_states |-> set_states, char |-> char, classes |-> classes]
    /\ UNCHANGED <<prog, pc, dfsm, input, lang, hist, evars>>

\* the loop has ended: lines 124-153
ReduceFinish ==
    /\ prog = "DFSM"
    /\ pc = "reduce"
    /\ q = <<>>
    /\ dfsm' = Reduced(dfsm, classes)
    /\ hist' = Append(hist, <<"reduce", dfsm'.number_states>>)
    /\ pc' = "idle"
    /\ UNCHANGED <<prog, input, lang, classes, q, task, evars>>

NextDFSM == EliminateUnreachableStates \/ ReduceStart \/ ReduceTask \/ ReduceFinish

SpecDFSM == InitDFSM /\ [][NextDFSM]_vars

\* pruning alone, from any initial state
InitPrune ==
    /\ prog = "prune"
    /\ pc = "idle"
    /\ dfsm \in DFSMs(<<"a", "b">>, PruneStates, PruneEdges, 0..(PruneStates - 1))
                \cup {TestDFSM}
    /\ input = dfsm
    /\ lang = {}
    /\ classes = <<>>
    /\ q = <<>>
    /\ task = NoTask
    /\ hist = <<>>
    /\ NoRegExpr

NextPrune == EliminateUnreachableStates

SpecPrune == InitPrune /\ [][NextPrune]_vars

(***************************************************************************)
(* The regular expressions, regexConversions.py lines 2-6                  *)
(***************************************************************************)
\* [key, atm, val] stands for the dict {'key': key, 'val': ...}: atm is the token of
\* an atom, val the list of the sub-expressions (val, or val['fst'] and val['snd'])
Atom(token) == [key |-> "atm", atm |-> token, val |-> <<>>]
Star(r) == [key |-> "*", atm |-> "", val |-> <<r>>]
Concat(l, r) == [key |-> ".", atm |-> "", val |-> <<l, r>>]
Union(l, r) == [key |-> "|", atm |-> "", val |-> <<l, r>>]

\* no regular expression handed over yet
NoExpr == [key |-> "", atm |-> "", val |-> <<>>]

\* a node whose tag is none of 'atm', '*', '.', '|'
UnknownNode == [key |-> "+", atm |-> "", val |-> <<Atom("a")>>]

Atoms == {Atom("a"), Atom("b")}

\* the regular expressions over leaves with exactly n nodes
RECURSIVE ExprsOfSize(_, _)
ExprsOfSize(leaves, n) ==
    IF n = 1 THEN leaves
    ELSE {Star(x) : x \in ExprsOfSize(leaves, n - 1)} \cup
         UNION {{Concat(x, y) : x \in ExprsOfSize(leaves, i),
                                y \in ExprsOfSize(leaves, n - 1 - i)} \cup
                {Union(x, y) : x \in ExprsOfSize(leaves, i),
                               y \in ExprsOfSize(leaves, n - 1 - i)} : i \in 1..(n - 2)}

RegExprs == UNION {ExprsOfSize(Atoms, n) : n \in 1..MaxNodes}

UnknownExprs ==
    {UnknownNode, Star(UnknownNode),
     Concat(Atom("a"), UnknownNode), Concat(UnknownNode, Atom("a")),
     Union(Atom("a"), UnknownNode), Union(UnknownNode, Atom("a")),
     Star(Star(UnknownNode)), Concat(Atom("a"), Star(UnknownNode))}

\* reg_expr_test.json, EilenbergMachine.py line 222: ((a|b*)*.((d*.e)|c)).(b|a)*
TestExpr ==
    Concat(Concat(Star(Union(Atom("a"), Star(Atom("b")))),
                  Union(Concat(Star(Atom("d")), Atom("e")), Atom("c"))),
           Star(Union(Atom("b"), Atom("a"))))

(***************************************************************************)
(* EilenbergMachine.py                                                     *)
(***************************************************************************)
EilenbergMachine(number_states, transitions_between_states, initial_states, acceptable_states) ==
    [number_states |-> number_states,
     transitions_between_states |-> transitions_between_states,
     initial_states |-> initial_states,
     acceptable_states |-> acceptable_states]

NoMachine == EilenbergMachine(0, <<>>, <<>>, <<>>)

\* how a call of get_Eilenberg_machine ends: it returns a machine, returns None
\* (no branch of lines 63-70 taken), or an exception leaves it
ReturnMachine(m) == [ret |-> "machine", machine |-> m]
ReturnNone == [ret |-> "None", machine |-> NoMachine]
Raise(exception) == [ret |-> exception, machine |-> NoMachine]

\* a plausible slip: the scan of the edges stops at the first edge labelled expr[0]
RECURSIVE FirstMatchingEdge(_, _, _)
FirstMatchingEdge(edges, i, e) ==
    IF i > Len(edges) THEN <<>>
    ELSE IF edges[i][2] = Head(e) THEN <<(<<edges[i][1], Tail(e)>>)>>
         ELSE FirstMatchingEdge(edges, i + 1, e)

\* lines 47-49: the pairs put for the edges labelled expr[0], in the order of the edges
RECURSIVE MatchingEdges(_, _, _)
MatchingEdges(edges, i, e) ==
    IF i > Len(edges) THEN <<>>
    ELSE (IF edges[i][2] = Head(e) THEN <<(<<edges[i][1], Tail(e)>>)>> ELSE <<>>)
         \o MatchingEdges(edges, i + 1, e)

\* the lists lists[lo], ..., lists[hi] one after the other
RECURSIVE Chain(_, _, _)
Chain(lists, lo, hi) ==
    IF lo > hi THEN <<>>
    ELSE IF lo = hi THEN lists[lo]
    ELSE LET mid == (lo + hi) \div 2
         IN  Chain(lists, lo, mid) \o Chain(lists, mid + 1, hi)

\* lines 39-50: the loop over the queue. The queue is first-in first-out and every
\* pair put holds the expr of the pair got less its first symbol, so the pairs are
\* got in rounds of one expr: a round of the empty expr returns True at its first
\* acceptable state (lines 43-45) and puts nothing, any other round puts the pairs
\* of its matching edges in the order of the queue (lines 47-49).
RECURSIVE AcceptLoop(_, _)
AcceptLoop(self, queue) ==
    IF queue = <<>> THEN FALSE
    ELSE IF Head(queue)[2] = <<>>
    THEN \E i \in 1..Len(queue) : Contains(self.acceptable_states, queue[i][1])
    ELSE AcceptLoop(self,
             Chain([i \in 1..Len(queue) |->
                       MatchingEdges(self.transitions_between_states[queue[i][1] + 1],
                                     1, queue[i][2])],
                   1, Len(queue)))

\* accept, lines 29-50
accept(self, e) ==
    AcceptLoop(self, [i \in 1..Len(self.initial_states) |-> <<self.initial_states[i], e>>])

\* lines 86-91: the edges of one state; the loop runs over the list it appends to
RECURSIVE StarEdges(_, _, _)
StarEdges(edges, i, e_machine) ==
    IF i > Len(edges) THEN edges
    ELSE IF Contains(e_machine.acceptable_states, edges[i][1])
         THEN StarEdges(edges \o [k \in 1..Len(e_machine.initial_states) |->
                                     <<e_machine.initial_states[k], edges[i][2]>>],
                        i + 1, e_machine)
         ELSE StarEdges(edges, i + 1, e_machine)

\* _build_Eilenberg_machine_oper_asterisk, lines 85-92, on the machine of the argument
OperAsterisk(e_machine) ==
    EilenbergMachine(e_machine.number_states,
                     [s \in 1..e_machine.number_states |->
                         StarEdges(e_machine.transitions_between_states[s], 1, e_machine)],
                     e_machine.initial_states,
                     e_machine.acceptable_states)

\* lines 118-124: new_state_numbers of the non-initial states of machine_snd
RECURSIVE ConcatNumbers(_, _, _, _)
ConcatNumbers(machine_snd, s, new_number, numbers) ==
    IF s >= machine_snd.number_states THEN numbers
    ELSE IF ~Contains(machine_snd.initial_states, s)
         THEN ConcatNumbers(machine_snd, s + 1, new_number + 1, (s :> new_number) @@ numbers)
         ELSE ConcatNumbers(machine_snd, s + 1, new_number, numbers)

\* lines 137-151: the appends <<state appended to, edge>> one edge (state, character)
\* of state s of machine_snd causes
ConcatAppends(machine_fst, machine_snd, numbers, s, state, character) ==
    LET inits == machine_snd.initial_states
        accs == machine_fst.acceptable_states
    IN  IF Contains(inits, s) /\ ~Contains(inits, state)
        THEN [k \in 1..Len(accs) |-> <<accs[k], <<numbers[state], character>>>>]
        ELSE IF Contains(inits, s) /\ Contains(inits, state)
        THEN [k \in 1..Len(accs) |-> <<accs[k], <<accs[k], character>>>>]
        ELSE IF ~Contains(inits, s) /\ Contains(inits, state)
        THEN [k \in 1..Len(accs) |-> <<numbers[s], <<accs[k], character>>>>]
        ELSE <<(<<numbers[s], <<numbers[state], character>>>>)>>

RECURSIVE ApplyAppends(_, _, _)
ApplyAppends(transitions, appends, k) ==
    IF k > Len(appends) THEN transitions
    ELSE ApplyAppends([transitions EXCEPT ![appends[k][1] + 1] = Append(@, appends[k][2])],
                      appends, k + 1)

\* lines 135-151: the edges of state s of machine_snd
RECURSIVE ConcatEdges(_, _, _, _, _, _)
ConcatEdges(machine_fst, machine_snd, numbers, s, i, transitions) ==
    LET edges == machine_snd.transitions_between_states[s + 1]
    IN  IF i > Len(edges) THEN transitions
        ELSE ConcatEdges(machine_fst, machine_snd, numbers, s, i + 1,
                 ApplyAppends(transitions,
                              ConcatAppends(machine_fst, machine_snd, numbers, s,
                                            edges[i][1], edges[i][2]),
                              1))

\* lines 134-151
RECURSIVE ConcatStates(_, _, _, _, _)
ConcatStates(machine_fst, machine_snd, numbers, s, transitions) ==
    IF s >= machine_snd.number_states THEN transitions
    ELSE ConcatStates(machine_fst, machine_snd, numbers, s + 1,
             ConcatEdges(machine_fst, machine_snd, numbers, s, 1, transitions))

\* a plausible slip: the acceptable states of machine_fst are kept, as the
\* or-construction keeps them
OperConcatLeftAcceptable(machine_fst, machine_snd) ==
    LET fresh == machine_snd.number_states - Len(machine_snd.initial_states)
        numbers == ConcatNumbers(machine_snd, 0, machine_fst.number_states, <<>>)
    IN  EilenbergMachine(
            machine_fst.number_states + fresh,
            ConcatStates(machine_fst, machine_snd, numbers, 0,
                         machine_fst.transitions_between_states \o [i \in 1..fresh |-> <<>>]),
            machine_fst.initial_states,
            machine_fst.acceptable_states \o
                [k \in 1..Len(machine_snd.acceptable_states) |->
                    numbers[machine_snd.acceptable_states[k]]])

\* _build_Eilenberg_machine_oper_concat, lines 112-162, on the machines of the arguments
OperConcat(machine_fst, machine_snd) ==
    LET fresh == machine_snd.number_states - Len(machine_snd.initial_states)
        numbers == ConcatNumbers(machine_snd, 0, machine_fst.number_states, <<>>)
    IN  EilenbergMachine(
            machine_fst.number_states + fresh,
            ConcatStates(machine_fst, machine_snd, numbers, 0,
                         machine_fst.transitions_between_states \o [i \in 1..fresh |-> <<>>]),
            machine_fst.initial_states,
            [k \in 1..Len(machine_snd.acceptable_states) |->
                numbers[machine_snd.acceptable_states[k]]])

\* a plausible slip: the initial states of machine_snd are not added
OperOrLeftInitials(machine_fst, machine_snd) ==
    LET n == machine_fst.number_states
    IN  EilenbergMachine(
            n + machine_snd.number_states,
            machine_fst.transitions_between_states \o
                [s \in 1..machine_snd.number_states |->
                    [k \in 1..Len(machine_snd.transitions_between_states[s]) |->
                        <<machine_snd.transitions_between_states[s][k][1] + n,
                          machine_snd.transitions_between_states[s][k][2]>>]],
            machine_fst.initial_states,
            machine_fst.acceptable_states \o
                [k \in 1..Len(machine_snd.acceptable_states) |->
                    machine_snd.acceptable_states[k] + n])

\* _build_Eilenberg_machine_oper_or, lines 182-208, on the machines of the arguments
OperOr(machine_fst, machine_snd) ==
    LET n == machine_fst.number_states
    IN  EilenbergMachine(
            n + machine_snd.number_states,
            machine_fst.transitions_between_states \o
                [s \in 1..machine_snd.number_states |->
                    [k \in 1..Len(machine_snd.transitions_between_states[s]) |->
                        <<machine_snd.transitions_between_states[s][k][1] + n,
                          machine_snd.transitions_between_states[s][k][2]>>]],
            machine_fst.initial_states \o
                [k \in 1..Len(machine_snd.initial_states) |->
                    machine_snd.initial_states[k] + n],
            machine_fst.acceptable_states \o
                [k \in 1..Len(machine_snd.acceptable_states) |->
                    machine_snd.acceptable_states[k] + n])

\* get_Eilenberg_machine, lines 60-70, with the three builders it calls. A builder
\* reads number_states of what the recursive call returned (lines 85, 113, 183):
\* on None that raises AttributeError.
RECURSIVE get_Eilenberg_machine(_)
get_Eilenberg_machine(re) ==
    LET key == re.key
        value == re.val
    IN
    IF key = "atm"
    THEN ReturnMachine(EilenbergMachine(2, << <<(<<1, re.atm>>)>>, <<>> >>, <<0>>, <<1>>))
    ELSE IF key = "*"
    THEN LET e == get_Eilenberg_machine(value[1])
         IN  IF e.ret = "machine" THEN ReturnMachine(OperAsterisk(e.machine))
             ELSE IF e.ret = "None" THEN Raise("AttributeError")
             ELSE e
    ELSE IF key \in {".", "|"}
    THEN LET fst == get_Eilenberg_machine(value[1])
             snd == get_Eilenberg_machine(value[2])
         IN  IF fst.ret \notin {"machine", "None"} THEN fst
             ELSE IF snd.ret \notin {"machine", "None"} THEN snd
             ELSE IF fst.ret = "None" \/ snd.ret = "None" THEN Raise("AttributeError")
             ELSE IF key = "." THEN ReturnMachine(OperConcat(fst.machine, snd.machine))
             ELSE ReturnMachine(OperOr(fst.machine, snd.machine))
    ELSE ReturnNone

\* The constructor arguments a behaviour draws: n states, at most e edges in all,
\* the same edge more than once and several edges with one symbol allowed.
RECURSIVE TransitionTables(_, _, _)
TransitionTables(choices, n, e) ==
    IF n = 0 THEN {<<>>}
    ELSE UNION {{<<l>> \o t : l \in [1..k -> choices],
                              t \in TransitionTables(choices, n - 1, e - k)} : k \in 0..e}

Machines(n, e) ==
    {EilenbergMachine(n, t, SortedSeq(I), SortedSeq(A)) :
        t \in TransitionTables((0..(n - 1)) \X {"a", "b"}, n, e),
        I \in SUBSET (0..(n - 1)), A \in SUBSET (0..(n - 1))}

\* the arguments of accept in the module-level test, lines 227-236
TestWords ==
    {<<"a", "c">>, <<"b", "b", "b", "d", "a">>, <<>>, <<"b", "b", "a", "b", "b", "d", "a">>,
     <<"a", "b", "a", "b">>, <<"a", "d", "d", "e", "c", "a">>,
     <<"a", "b", "b", "d", "d", "e", "a", "a", "a", "b">>, <<"a", "c", "a">>,
     <<"b", "d", "e", "a">>, <<"b", "b", "c", "b", "b">>}

(***************************************************************************)
(* regexConversions.py                                                     *)
(***************************************************************************)
\* how a conversion ends: with a value, with None, or with an exception
ReturnValue(kind, v) == [ret |-> kind, val |-> v]

\* conversion_reg_expr_to_str, lines 24-41; str + None raises TypeError
RECURSIVE conversion_reg_expr_to_str(_)
conversion_reg_expr_to_str(re) ==
    LET key == re.key
        value == re.val
    IN  IF key = "atm" THEN ReturnValue("str", <<re.atm>>)
        ELSE IF key = "*"
        THEN LET inner == conversion_reg_expr_to_str(value[1])
             IN  IF inner.ret = "None" THEN ReturnValue("TypeError", <<>>)
                 ELSE IF inner.ret # "str" THEN inner
                 ELSE IF value[1].key = "atm" THEN ReturnValue("str", inner.val \o <<"*">>)
                 ELSE ReturnValue("str", <<"(">> \o inner.val \o <<")", "*">>)
        ELSE IF key = "."
        THEN LET fst == conversion_reg_expr_to_str(value[1])
                 snd == conversion_reg_expr_to_str(value[2])
             IN  IF fst.ret \notin {"str", "None"} THEN fst
                 ELSE IF snd.ret \notin {"str", "None"} THEN snd
                 ELSE IF fst.ret = "None" \/ snd.ret = "None" THEN ReturnValue("TypeError", <<>>)
                 ELSE ReturnValue("str",
                          (IF value[1].key = "|" THEN <<"(">> \o fst.val \o <<")">> ELSE fst.val)
                          \o <<".">> \o
                          (IF value[2].key = "|" THEN <<"(">> \o snd.val \o <<")">> ELSE snd.val))
        ELSE IF key = "|"
        THEN LET fst == conversion_reg_expr_to_str(value[1])
             IN  IF fst.ret \notin {"str", "None"} THEN fst
                 ELSE IF fst.ret = "None" THEN ReturnValue("TypeError", <<>>)
                 ELSE LET snd == conversion_reg_expr_to_str(value[2])
                      IN  IF snd.ret \notin {"str", "None"} THEN snd
                          ELSE IF snd.ret = "None" THEN ReturnValue("TypeError", <<>>)
                          ELSE ReturnValue("str", fst.val \o <<"|">> \o snd.val)
        ELSE ReturnValue("None", <<>>)

\* line 88
priority_operations(char) ==
    CASE char = "*" -> 1
      [] char = "." -> 2
      [] char = "|" -> 3
      [] char \in {"(", ")"} -> 4

\* lines 116-117
RECURSIVE PopOperators(_, _, _)
PopOperators(char, postfix, stack) ==
    IF Len(stack) > 0 /\ priority_operations(char) > priority_operations(stack[Len(stack)])
    THEN PopOperators(char, Append(postfix, stack[Len(stack)]),
                      SubSeq(stack, 1, Len(stack) - 1))
    ELSE [postfix |-> postfix, stack |-> stack]

\* lines 112-114; stack[-1] and stack.pop() of an empty list raise IndexError
RECURSIVE PopToBracket(_, _)
PopToBracket(postfix, stack) ==
    IF stack = <<>> THEN [ret |-> "IndexError", postfix |-> postfix, stack |-> stack]
    ELSE IF stack[Len(stack)] # "("
    THEN PopToBracket(Append(postfix, stack[Len(stack)]), SubSeq(stack, 1, Len(stack) - 1))
    ELSE [ret |-> "ok", postfix |-> postfix, stack |-> SubSeq(stack, 1, Len(stack) - 1)]

\* the list a from its last element to its first
Reverse(a) == [i \in 1..Len(a) |-> a[Len(a) + 1 - i]]

\* lines 108-123
RECURSIVE PostfixLoop(_, _, _, _)
PostfixLoop(infix, i, postfix, stack) ==
    IF i > Len(infix) THEN ReturnValue("str", postfix \o Reverse(stack))
    ELSE LET char == infix[i]
         IN  IF char = "(" THEN PostfixLoop(infix, i + 1, postfix, Append(stack, "("))
             ELSE IF char = ")"
             THEN LET r == PopToBracket(postfix, stack)
                  IN  IF r.ret # "ok" THEN ReturnValue(r.ret, <<>>)
                      ELSE PostfixLoop(infix, i + 1, r.postfix, r.stack)
             ELSE IF char \in {".", "|"}
             THEN LET r == PopOperators(char, postfix, stack)
                  IN  PostfixLoop(infix, i + 1, r.postfix, Append(r.stack, char))
             ELSE IF char = "*" \/ char # " "
             THEN PostfixLoop(infix, i + 1, Append(postfix, char), stack)
             ELSE PostfixLoop(infix, i + 1, postfix, stack)

\* conversion_to_postfix_expr, lines 82-123
conversion_to_postfix_expr(infix) == PostfixLoop(infix, 1, <<>>, <<>>)

\* lines 66-79
RECURSIVE JsonLoop(_, _, _)
JsonLoop(postfix, i, stack) ==
    IF i > Len(postfix)
    THEN IF stack = <<>> THEN ReturnValue("IndexError", NoExpr)
         ELSE ReturnValue("dict", stack[Len(stack)])
    ELSE LET char == postfix[i]
             n == Len(stack)
         IN  IF char = "*"
             THEN IF n < 1 THEN ReturnValue("IndexError", NoExpr)
                  ELSE JsonLoop(postfix, i + 1,
                                Append(SubSeq(stack, 1, n - 1), Star(stack[n])))
             ELSE IF char \in {".", "|"}
             THEN IF n < 2 THEN ReturnValue("IndexError", NoExpr)
                  ELSE JsonLoop(postfix, i + 1,
                                Append(SubSeq(stack, 1, n - 2),
                                       [key |-> char, atm |-> "", val |-> <<stack[n - 1], stack[n]>>]))
             ELSE JsonLoop(postfix, i + 1, Append(stack, Atom(char)))

\* conversion_reg_expr_to_json, lines 44-79
conversion_reg_expr_to_json(infix) ==
    LET postfix == conversion_to_postfix_expr(infix)
    IN  IF postfix.ret # "str" THEN ReturnValue(postfix.ret, NoExpr)
        ELSE JsonLoop(postfix.val, 1, <<>>)

NoValue == ReturnValue("", <<>>)
NoDict == ReturnValue("", NoExpr)

----
\* the variables of DFSM.py, unused by the other two scripts
NoDFSMVars ==
    /\ dfsm = NoDFSM
    /\ input = NoDFSM
    /\ lang = {}
    /\ classes = <<>>
    /\ q = <<>>
    /\ task = NoTask
    /\ hist = <<>>

InitRegExpr ==
    /\ prog \in {"EilenbergMachine", "regexConversions"}
    /\ pc = "start"
    /\ reg_expr = NoExpr
    /\ machine = NoMachine
    /\ returned = ""
    /\ expr = <<>>
    /\ result = FALSE
    /\ str = NoValue
    /\ json = NoDict
    /\ NoDFSMVars

\* machine = EilenbergMachine.get_Eilenberg_machine(reg_expr_test), line 225
GetEilenbergMachine ==
    /\ prog = "EilenbergMachine"
    /\ pc = "start"
    /\ \E re \in RegExprs \cup UnknownExprs \cup {TestExpr} :
          /\ reg_expr' = re
          /\ machine' = get_Eilenberg_machine(re).machine
          /\ returned' = get_Eilenberg_machine(re).ret
    /\ pc' = "built"
    /\ UNCHANGED <<prog, expr, result, str, json, dvars>>

\* EilenbergMachine(number_states, transitions_between_states, initial_states,
\* acceptable_states), lines 22-27
Construct ==
    /\ prog = "EilenbergMachine"
    /\ pc = "start"
    /\ machine' \in Machines(NfaStates, NfaEdges)
    /\ returned' = "machine"
    /\ pc' = "built"
    /\ UNCHANGED <<prog, reg_expr, expr, result, str, json, dvars>>

AcceptArguments ==
    IF reg_expr = TestExpr THEN TestWords
    ELSE IF reg_expr = NoExpr THEN Words(<<"a", "b">>, MaxExprLen)
    ELSE Words(<<"a", "b">>, MaxWordLen)

\* machine.accept(...), lines 227-236
Accept ==
    /\ prog = "EilenbergMachine"
    /\ pc = "built"
    /\ returned = "machine"
    /\ \E w \in AcceptArguments :
          /\ expr' = w
          /\ result' = accept(machine, w)
    /\ pc' = "done"
    /\ UNCHANGED <<prog, reg_expr, machine, returned, str, json, dvars>>

\* conversion_reg_expr_to_str(...), line 148
ConversionRegExprToStr ==
    /\ prog = "regexConversions"
    /\ pc = "start"
    /\ \E re \in RegExprs \cup UnknownExprs \cup {TestExpr} :
          /\ reg_expr' = re
          /\ str' = conversion_reg_expr_to_str(re)
    /\ pc' = "str"
    /\ UNCHANGED <<prog, machine, returned, expr, result, json, dvars>>

\* conversion_reg_expr_to_json(...), line 155; the string read is one that
\* conversion_reg_expr_to_str returned
ConversionRegExprToJson ==
    /\ prog = "regexConversions"
    /\ pc = "str"
    /\ str.ret = "str"
    /\ json' = conversion_reg_expr_to_json(str.val)
    /\ pc' = "json"
    /\ UNCHANGED <<prog, reg_expr, machine, returned, expr, result, str, dvars>>

NextRegExpr ==
    \/ GetEilenbergMachine
    \/ Construct
    \/ Accept
    \/ ConversionRegExprToStr
    \/ ConversionRegExprToJson

SpecRegExpr == InitRegExpr /\ [][NextRegExpr]_vars

(***************************************************************************)
(* Claims about DFSM.py                                                    *)
(***************************************************************************)
PrunedThenReduced ==
    /\ prog = "DFSM" /\ pc = "idle"
    /\ Len(hist) >= 2 /\ hist[1][1] = "eliminate" /\ hist[2][1] = "reduce"

\* C1: the machine left by eliminate_unreachable_states followed by reduce_dfsm
\* accepts exactly the words the machine as constructed accepts.
C1_SameLanguage ==
    (PrunedThenReduced /\ Len(hist) = 2) => LanguageDFSM(dfsm) = lang

\* C2: a second reduce_dfsm returns with the number of states the first one
\* returned with.
C2_Idempotent ==
    (PrunedThenReduced /\ Len(hist) = 3 /\ hist[3][1] = "reduce") => hist[3][2] = hist[2][2]

\* the states reachable from the initial state: the least set holding it and
\* closed under the edges
RECURSIVE Closure(_, _)
Closure(self, R) ==
    LET more == R \cup {e[1] : e \in UNION {Range(self.transitions_between_states[s + 1]) : s \in R}}
    IN  IF more = R THEN R ELSE Closure(self, more)

Reachable(self) == Closure(self, {self.initial_state})

\* the number of reachable states below s: the order-preserving renumbering
Rank(self, s) == Cardinality({r \in Reachable(self) : r < s})

Edges(self) ==
    UNION {{<<s, e[1], e[2]>> : e \in Range(self.transitions_between_states[s + 1])} :
              s \in 0..(self.number_states - 1)}

\* C6: eliminate_unreachable_states leaves the restriction of the machine to the
\* states reachable from its initial state, renumbered in the order of their old
\* numbers; of the 5 states of the module's test machine, state 2 is dropped.
C6_PruneIsRestriction ==
    (prog = "prune" /\ hist # <<>>) =>
        LET R == Reachable(input)
        IN  /\ dfsm.number_states = Cardinality(R)
            /\ Len(dfsm.transitions_between_states) = Cardinality(R)
            /\ Edges(dfsm) = {<<Rank(input, e[1]), Rank(input, e[2]), e[3]>> :
                                 e \in {x \in Edges(input) : x[1] \in R /\ x[2] \in R}}
            /\ dfsm.initial_state = Rank(input, input.initial_state)
            /\ Range(dfsm.acceptable_states) =
                  {Rank(input, s) : s \in Range(input.acceptable_states) \cap R}
            /\ input = TestDFSM =>
                  /\ R = {0, 1, 3, 4}
                  /\ dfsm.number_states = 4
                  /\ dfsm.acceptable_states = <<3>>

\* a machine with an unreachable state whose edge into a reachable state is
\* dropped, pruned
C6_Witness ==
    /\ prog = "prune" /\ hist # <<>>
    /\ dfsm.number_states < input.number_states
    /\ \E e \in Edges(input) : e[1] \notin Reachable(input) /\ e[2] \in Reachable(input)
    /\ Edges(dfsm) # {}

\* the state s lands in set_states on char
Lands(self, s, set_states, char) ==
    /\ Transition(self, s, char) # -1
    /\ Contains(set_states, Transition(self, s, char))

\* C10: once a popped task (S, symbol) has been processed, no class that was in
\* the partition when it was popped and still is holds both a state that lands
\* in S on symbol and a state that does not.
C10_EveryClassTested ==
    (prog = "DFSM" /\ pc = "reduce" /\ task # NoTask) =>
        \A i \in 1..Len(task.classes) :
            LET C == task.classes[i]
            IN  Contains(classes, C) =>
                   ~ \E x \in Range(C), y \in Range(C) :
                        /\ Lands(dfsm, x, task.set_states, task.char)
                        /\ ~Lands(dfsm, y, task.set_states, task.char)

(***************************************************************************)
(* Claims about EilenbergMachine.py and regexConversions.py                *)
(***************************************************************************)
\* some node of re carries a tag other than 'atm', '*', '.', '|'
RECURSIVE HasUnknown(_)
HasUnknown(re) ==
    \/ re.key \notin {"atm", "*", ".", "|"}
    \/ \E i \in 1..Len(re.val) : HasUnknown(re.val[i])

\* w is a word of the regular expression re
RECURSIVE Matches(_, _)
Matches(re, w) ==
    IF re.key = "atm" THEN w = <<re.atm>>
    ELSE IF re.key = "|" THEN Matches(re.val[1], w) \/ Matches(re.val[2], w)
    ELSE IF re.key = "."
    THEN \E i \in 0..Len(w) : /\ Matches(re.val[1], SubSeq(w, 1, i))
                              /\ Matches(re.val[2], SubSeq(w, i + 1, Len(w)))
    ELSE \/ w = <<>>
         \/ \E i \in 1..Len(w) : /\ Matches(re.val[1], SubSeq(w, 1, i))
                                 /\ Matches(re, SubSeq(w, i + 1, Len(w)))

\* C3: converting a regular expression of atoms, Star, Concat and Union to its
\* string and the string back gives the same regular expression, the nesting of
\* chained Concat and chained Union nodes included.
C3_RoundTrip ==
    (prog = "regexConversions" /\ pc = "json" /\ ~HasUnknown(reg_expr))
        => (json.ret = "dict" /\ json.val = reg_expr)

\* C4: the machine get_Eilenberg_machine returns for a regular expression accepts
\* a word exactly when the word belongs to the language of the regular expression.
C4_AcceptsExactlyLanguage ==
    (prog = "EilenbergMachine" /\ pc = "done" /\ reg_expr # NoExpr)
        => (result = Matches(reg_expr, expr))

AcceptedTestWords ==
    {<<"a", "b", "b", "d", "d", "e", "a", "a", "a", "b">>, <<"a", "c", "a">>,
     <<"b", "d", "e", "a">>, <<"b", "b", "c", "b", "b">>}

RejectedTestWords ==
    {<<"a", "c">>, <<>>, <<"b", "b", "b", "d", "a">>,
     <<"b", "b", "a", "b", "b", "d", "a">>, <<"a", "b", "a", "b">>,
     <<"a", "d", "d", "e", "c", "a">>}

C7_AcceptIsPath ==
    (prog = "EilenbergMachine" /\ pc = "done")
        => /\ result = HasPath(machine.transitions_between_states,
                               Range(machine.initial_states),
                               Range(machine.acceptable_states), expr)
           /\ expr = <<>> =>
                 result = (Range(machine.initial_states) \cap
                           Range(machine.acceptable_states) # {})

\* a machine with two edges of one symbol from its initial state, the second of
\* which alone leads to acceptance
C7_Witness ==
    /\ prog = "EilenbergMachine"
    /\ pc = "done"
    /\ reg_expr = NoExpr
    /\ machine.initial_states = <<0>>
    /\ machine.acceptable_states = <<1>>
    /\ machine.transitions_between_states = << <<(<<0, "a">>), <<1, "a">> >>, <<>> >>
    /\ expr = <<"a", "a">>
    /\ result = TRUE

\* C8: for a regular expression with a node of an unknown tag, get_Eilenberg_machine
\* and conversion_reg_expr_to_str both fail with an UnknownOperator error.
C8_UnknownOperator ==
    /\ (prog = "EilenbergMachine" /\ pc = "built" /\ HasUnknown(reg_expr))
           => returned = "UnknownOperator"
    /\ (prog = "regexConversions" /\ pc = "str" /\ HasUnknown(reg_expr))
           => str.ret = "UnknownOperator"

\* C9: an incoming binary operator pops the stacked operators of the same priority,
\* so a chain x op y op z is emitted as x y op z op and parses to op(op(x, y), z).
C9_LeftAssociative ==
    \A op \in {".", "|"} : \A x, y, z \in {"a", "b"} :
        (prog = "regexConversions" /\ pc = "json" /\ str.val = <<x, op, y, op, z>>)
            => /\ conversion_to_postfix_expr(str.val).val = <<x, y, op, z, op>>
               /\ json.val = [key |-> op, atm |-> "",
                              val |-> <<[key |-> op, atm |-> "",
                                         val |-> <<Atom(x), Atom(y)>>], Atom(z)>>]

(***************************************************************************)
(* Further claims about DFSM.py                                            *)
(***************************************************************************)
\* the words of length at most number_states accepted from state s; an automaton
\* of n states and its missing-edge sink has n + 1 states, and two of them that
\* differ at all differ on a word of length at most n
Residual(self, s) ==
    LanguageFrom(self.transitions_between_states, self.alphabet,
                 Range(self.acceptable_states), {s}, self.number_states)

SameClass(cls, x, y) ==
    \E i \in 1..Len(cls) : x \in Range(cls[i]) /\ y \in Range(cls[i])

\* C11: when the worklist of reduce_dfsm is empty, two states of the pruned
\* automaton are in the same class exactly when they accept the same remaining
\* input strings.
C11_MyhillNerode ==
    (prog = "DFSM" /\ pc = "reduce" /\ q = <<>> /\ Len(hist) = 1)
        => \A x, y \in 0..(dfsm.number_states - 1) :
               SameClass(classes, x, y) <=> (Residual(dfsm, x) = Residual(dfsm, y))

\* C14: reduce_dfsm of a pruned automaton with at least one state leaves at most
\* as many states as it found.
C14_NeverMoreStates ==
    (PrunedThenReduced /\ hist[1][2] >= 1) => hist[2][2] <= hist[1][2]

(***************************************************************************)
(* Further claims about EilenbergMachine.py                                *)
(***************************************************************************)
\* the machine get_Eilenberg_machine returns for re
MachineOf(re) == get_Eilenberg_machine(re).machine

\* C12: the machine built for Concat(l, r) accepts a word exactly when the word is
\* a word accepted by the machine built for l followed by a word accepted by the
\* machine built for r.
C12_ConcatIsProduct ==
    (prog = "EilenbergMachine" /\ pc = "done" /\ reg_expr.key = ".")
        => (result = \E i \in 0..Len(expr) :
                         /\ accept(MachineOf(reg_expr.val[1]), SubSeq(expr, 1, i))
                         /\ accept(MachineOf(reg_expr.val[2]), SubSeq(expr, i + 1, Len(expr))))

NoInitialAcceptable(m) ==
    Range(m.initial_states) \cap Range(m.acceptable_states) = {}

====
